---- MODULE Spec2Model ----
(***************************************************************************)
(* Model of env_manager.py: an interactive manager of a .env style file.   *)
(* A string is a sequence of one-character strings, a file is a sequence   *)
(* of lines (without their terminating newline), and the dict env_vars is  *)
(* a sequence of [key, value] records in insertion order.                  *)
(***************************************************************************)
EXTENDS Integers, Sequences, FiniteSets, TLC

\* ---------------------------------------------------------------- bounds
MaxVars == 2      \* add_var is only explored while the dict has fewer entries
MaxLines == 2     \* number of lines of the file found at start-up

\* ---------------------------------------------------------------- strings
Whitespace == {" ", "\t"}

RECURSIVE lstrip(_)
lstrip(s) ==
  IF s # <<>> /\ Head(s) \in Whitespace THEN lstrip(Tail(s)) ELSE s

RECURSIVE rstrip(_)
rstrip(s) ==
  IF s # <<>> /\ s[Len(s)] \in Whitespace
    THEN rstrip(SubSeq(s, 1, Len(s) - 1))
    ELSE s

\* str.strip()
strip(s) == rstrip(lstrip(s))

\* str.startswith(p)
startswith(s, p) == Len(p) <= Len(s) /\ SubSeq(s, 1, Len(p)) = p

LowerChar(c) ==
  CASE c = "Y" -> "y"
    [] c = "N" -> "n"
    [] c = "E" -> "e"
    [] c = "S" -> "s"
    [] OTHER -> c

\* str.lower()
lower(s) == [i \in 1..Len(s) |-> LowerChar(s[i])]

\* position of the first "=" of s, 0 when there is none
FirstEq(s) ==
  IF \E i \in 1..Len(s) : s[i] = "="
    THEN CHOOSE i \in 1..Len(s) : s[i] = "=" /\ \A j \in 1..(i - 1) : s[j] # "="
    ELSE 0

\* position of the last "=" of s, 0 when there is none
LastEq(s) ==
  IF \E i \in 1..Len(s) : s[i] = "="
    THEN CHOOSE i \in 1..Len(s) : s[i] = "=" /\ \A j \in (i + 1)..Len(s) : s[j] # "="
    ELSE 0

split_last(s) ==
  IF LastEq(s) = 0 THEN <<s>>
  ELSE <<SubSeq(s, 1, LastEq(s) - 1), SubSeq(s, LastEq(s) + 1, Len(s))>>

\* line.split('=', 1): one part when there is no "=", else two
split1(s) ==
  IF FirstEq(s) = 0 THEN <<s>>
  ELSE <<SubSeq(s, 1, FirstEq(s) - 1), SubSeq(s, FirstEq(s) + 1, Len(s))>>

\* ---------------------------------------------------------------- the dict
Keys(d) == [i \in 1..Len(d) |-> d[i].key]

KeySet(d) == {d[i].key : i \in 1..Len(d)}

HasKey(d, k) == k \in KeySet(d)

IndexOf(d, k) == CHOOSE i \in 1..Len(d) : d[i].key = k

\* d[k]
DictGet(d, k) == d[IndexOf(d, k)].value

RECURSIVE DictDel(_, _)
\* del d[k]
DictDel(d, k) ==
  IF d = <<>> THEN <<>>
  ELSE IF Head(d).key = k THEN Tail(d)
  ELSE <<Head(d)>> \o DictDel(Tail(d), k)

\* d[k] = v: an existing key keeps its position, a new key goes last
DictSet(d, k, v) ==
  IF HasKey(d, k)
    THEN [i \in 1..Len(d) |-> IF d[i].key = k THEN [key |-> k, value |-> v] ELSE d[i]]
    ELSE Append(d, [key |-> k, value |-> v])

\* ---------------------------------------------------------------- the file
RECURSIVE LoadLines(_, _)
\* the loop of load_env_vars over the lines of the file, d the dict so far
LoadLines(lines, d) ==
  IF lines = <<>> THEN d
  ELSE LET line == strip(Head(lines))
           parts == split1(line)
       IN IF line # <<>> /\ ~startswith(line, <<"#">>)
            THEN IF Len(parts) = 2
                   THEN LoadLines(Tail(lines), DictSet(d, strip(parts[1]), strip(parts[2])))
                   ELSE LoadLines(Tail(lines), d)
            ELSE LoadLines(Tail(lines), d)

\* load_env_vars: the dict is cleared, a missing file leaves it empty
load_env_vars(exists, lines) ==
  IF exists THEN LoadLines(lines, <<>>) ELSE <<>>

\* f"{key}={value}\n", the newline being the end of the line
FormatLine(k, v) == k \o <<"=">> \o v

OpenAppend(old) == old

\* open(env_file, 'w') truncates what the file held
OpenTruncate(old) == <<>>

\* EnvCompleter.complete: the list the candidates are indexed from
Matches(keys, text) ==
  IF text # <<>>
    THEN SelectSeq(keys, LAMBDA k : startswith(k, text))
    ELSE keys

\* EnvCompleter.complete(text, state): <<key>>, or <<>> for None
complete(keys, text, state) ==
  LET matches == Matches(keys, text)
  IN IF state < Len(matches) THEN <<matches[state + 1]>> ELSE <<>>

RECURSIVE CandidatesFrom(_, _, _)
\* readline asks for state 0, 1, 2, ... until the completer returns None
CandidatesFrom(keys, text, state) ==
  LET r == complete(keys, text, state)
  IN IF r = <<>> THEN <<>> ELSE r \o CandidatesFrom(keys, text, state + 1)

Candidates(keys, text) == CandidatesFrom(keys, text, 0)

\* ---------------------------------------------------------------- inputs
\* lines the file may hold when the program starts
InitLines ==
  { <<>>,
    <<"#", " ", "c">>,
    <<" ", "#", "B", "=", "x">>,
    <<"A", "=", "x">>,
    <<" ", "A", " ", "=", " ", "y", " ">>,
    <<"B", "=">>,
    <<"B", "=", "x", "=", "y">>,
    <<"=", "x">>,
    <<"B", "A", "D">> }

RECURSIVE SeqsUpTo(_, _)
SeqsUpTo(S, n) ==
  IF n = 0 THEN {<<>>}
  ELSE LET shorter == SeqsUpTo(S, n - 1)
       IN shorter \cup {Append(q, e) : q \in shorter, e \in S}

\* the file of the malformed-line example: a comment, a blank line, a pair, a bad line
ExampleFile ==
  << <<"#", " ", "c", "o", "m", "m", "e", "n", "t">>,
     <<>>,
     <<"F", "O", "O", "=", "b", "a", "r">>,
     <<"B", "A", "D", "L", "I", "N", "E">> >>

InitFiles == SeqsUpTo(InitLines, MaxLines) \cup {ExampleFile}

\* what the user may type at the prompts, before .strip()
ChoiceInputs == {<<"1">>, <<"2">>, <<" ", "3">>, <<"4", " ">>, <<"5">>, <<"9">>, <<>>}
KeyInputs == {<<>>, <<" ">>, <<"A">>, <<" ", "B", " ">>, <<"A", "=", "B">>, <<"#", "A">>}
ValueInputs == {<<>>, <<" ">>, <<"x">>, <<" ", "y", " ">>}
ConfirmInputs == {<<>>, <<"y">>, <<" ", "Y", " ">>, <<"n">>, <<"y", "e", "s">>}

\* ---------------------------------------------------------------- state
VARIABLES
  file_exists,  \* whether env_file exists on disk
  file,         \* the lines of env_file on disk (<<>> when it does not exist)
  env_vars,     \* EnvManager.env_vars
  completer,    \* EnvCompleter.keys of the installed completer
  pc,           \* where the process is: a prompt, a step of save_env_vars, or ended
  op,           \* the menu operation in progress: "none", "add", "edit", "delete"
  typed,        \* the last line input() returned, before .strip()
  key,          \* the local variable key of the operation in progress
  wbuf,         \* the lines written to the open file object and not yet flushed
  msg,          \* the last message printed
  exit_code,    \* -1 while running, else the exit status of the process
  op_file,      \* history: [exists, lines] of the file when the operation began
  op_vars       \* history: env_vars when the operation began

vars == <<file_exists, file, env_vars, completer, pc, op, typed, key, wbuf, msg,
          exit_code, op_file, op_vars>>

Prompts == {"choice", "add_key", "add_value", "edit_key", "edit_value",
            "delete_key", "delete_confirm"}

Init ==
  /\ file_exists \in BOOLEAN
  /\ file \in (IF file_exists THEN InitFiles ELSE {<<>>})
  /\ env_vars = <<>>
  /\ completer = <<>>
  /\ pc = "start"
  /\ op = "none"
  /\ typed = <<>>
  /\ key = <<>>
  /\ wbuf = <<>>
  /\ msg = "none"
  /\ exit_code = -1
  /\ op_file = [exists |-> file_exists, lines |-> file]
  /\ op_vars = <<>>

Running == exit_code = -1

\* setup_readline: a new EnvCompleter over list(env_vars.keys())
setup_readline(d) == Keys(d)

\* the message list_vars prints
list_vars(d) == IF d = <<>> THEN "No environment variables found." ELSE "listed"

\* EnvManager.__init__: load_env_vars, the SIGINT handler, setup_readline
Construct ==
  /\ Running /\ pc = "start"
  /\ env_vars' = load_env_vars(file_exists, file)
  /\ completer' = setup_readline(env_vars')
  /\ msg' = IF file_exists THEN "none" ELSE "Creating new env file"
  /\ pc' = "choice"
  /\ op_vars' = env_vars'
  /\ UNCHANGED <<file_exists, file, op, typed, key, wbuf, exit_code, op_file>>

\* main: one pass of the menu loop up to the first prompt of the chosen operation
MenuChoice ==
  /\ Running /\ pc = "choice"
  /\ \E c \in ChoiceInputs :
       LET choice == strip(c) IN
       /\ typed' = c
       /\ op_file' = [exists |-> file_exists, lines |-> file]
       /\ op_vars' = env_vars
       /\ key' = <<>>
       /\ CASE choice = <<"1">> ->
                 /\ msg' = list_vars(env_vars)
                 /\ UNCHANGED <<pc, op, exit_code>>
            [] choice = <<"2">> ->
                 /\ msg' = "Press Tab for suggestions or Ctrl+C to cancel"
                 /\ pc' = "add_key" /\ op' = "add"
                 /\ UNCHANGED exit_code
            [] choice = <<"3">> ->
                 /\ msg' = list_vars(env_vars)
                 /\ pc' = "edit_key" /\ op' = "edit"
                 /\ UNCHANGED exit_code
            [] choice = <<"4">> ->
                 /\ msg' = list_vars(env_vars)
                 /\ pc' = "delete_key" /\ op' = "delete"
                 /\ UNCHANGED exit_code
            [] choice = <<"5">> ->
                 /\ msg' = "Goodbye!"
                 /\ exit_code' = 0
                 /\ UNCHANGED <<pc, op>>
            [] OTHER ->
                 /\ msg' = "Invalid choice. Please try again."
                 /\ UNCHANGED <<pc, op, exit_code>>
  /\ UNCHANGED <<file_exists, file, env_vars, completer, wbuf>>

AddKeyNoDuplicateCheck ==
  /\ Running /\ pc = "add_key"
  /\ \E k \in KeyInputs :
       /\ typed' = k
       /\ key' = strip(k)
       /\ IF key' = <<>>
            THEN msg' = "Key cannot be empty!" /\ pc' = "choice" /\ op' = "none"
            ELSE /\ HasKey(env_vars, key') \/ Len(env_vars) < MaxVars
                 /\ msg' = "Enter value: " /\ pc' = "add_value" /\ UNCHANGED op
  /\ UNCHANGED <<file_exists, file, env_vars, completer, wbuf, exit_code,
                 op_file, op_vars>>

\* add_var up to its second prompt: the key is read and checked
AddKey ==
  /\ Running /\ pc = "add_key"
  /\ \E k \in KeyInputs :
       /\ typed' = k
       /\ key' = strip(k)
       /\ IF key' = <<>>
            THEN msg' = "Key cannot be empty!" /\ pc' = "choice" /\ op' = "none"
            ELSE IF HasKey(env_vars, key')
              THEN /\ msg' = "Key already exists! Use edit option to modify."
                   /\ pc' = "choice" /\ op' = "none"
              ELSE /\ Len(env_vars) < MaxVars
                   /\ msg' = "Enter value: " /\ pc' = "add_value" /\ UNCHANGED op
  /\ UNCHANGED <<file_exists, file, env_vars, completer, wbuf, exit_code,
                 op_file, op_vars>>

\* add_var from its second prompt to the call of save_env_vars
AddValue ==
  /\ Running /\ pc = "add_value"
  /\ \E v \in ValueInputs :
       /\ typed' = v
       /\ env_vars' = DictSet(env_vars, key, strip(v))
  /\ pc' = "save_open"
  /\ UNCHANGED <<file_exists, file, completer, op, key, wbuf, msg, exit_code,
                 op_file, op_vars>>

\* edit_var up to its second prompt
EditKey ==
  /\ Running /\ pc = "edit_key"
  /\ \E k \in KeyInputs :
       /\ typed' = k
       /\ key' = strip(k)
       /\ IF ~HasKey(env_vars, key')
            THEN msg' = "Key not found!" /\ pc' = "choice" /\ op' = "none"
            ELSE msg' = "Current value" /\ pc' = "edit_value" /\ UNCHANGED op
  /\ UNCHANGED <<file_exists, file, env_vars, completer, wbuf, exit_code,
                 op_file, op_vars>>

EditedValueAlwaysTyped(current, value) == value

\* the value edit_var stores: an empty answer keeps the current one
EditedValue(current, value) == IF value = <<>> THEN current ELSE value

\* edit_var from its second prompt to the call of save_env_vars
EditValue ==
  /\ Running /\ pc = "edit_value"
  /\ \E v \in ValueInputs :
       /\ typed' = v
       /\ env_vars' = DictSet(env_vars, key, EditedValue(DictGet(env_vars, key), strip(v)))
       /\ msg' = IF strip(v) = <<>> THEN "Keeping current value." ELSE msg
  /\ pc' = "save_open"
  /\ UNCHANGED <<file_exists, file, completer, op, key, wbuf, exit_code,
                 op_file, op_vars>>

\* delete_var up to its second prompt
DeleteKey ==
  /\ Running /\ pc = "delete_key"
  /\ \E k \in KeyInputs :
       /\ typed' = k
       /\ key' = strip(k)
       /\ IF ~HasKey(env_vars, key')
            THEN msg' = "Key not found!" /\ pc' = "choice" /\ op' = "none"
            ELSE msg' = "Are you sure?" /\ pc' = "delete_confirm" /\ UNCHANGED op
  /\ UNCHANGED <<file_exists, file, env_vars, completer, wbuf, exit_code,
                 op_file, op_vars>>

ConfirmedUnlessNo(answer) == lower(strip(answer)) # <<"n">>

\* confirm == 'y' for confirm = input(...).strip().lower()
Confirmed(answer) == lower(strip(answer)) = <<"y">>

\* delete_var from its second prompt to the call of save_env_vars or the return
DeleteConfirm ==
  /\ Running /\ pc = "delete_confirm"
  /\ \E c \in ConfirmInputs :
       /\ typed' = c
       /\ IF Confirmed(c)
            THEN /\ env_vars' = DictDel(env_vars, key)
                 /\ pc' = "save_open"
                 /\ UNCHANGED <<op, msg>>
            ELSE /\ msg' = "Deletion cancelled."
                 /\ pc' = "choice" /\ op' = "none"
                 /\ UNCHANGED env_vars
  /\ UNCHANGED <<file_exists, file, completer, key, wbuf, exit_code,
                 op_file, op_vars>>

\* ---------------------------------------------------------------- save_env_vars
\* open(env_file, 'w') succeeds: the file exists and is empty
OpenFile ==
  /\ Running /\ pc = "save_open"
  /\ file_exists' = TRUE
  /\ file' = OpenTruncate(file)
  /\ wbuf' = <<>>
  /\ pc' = "save_write"
  /\ UNCHANGED <<env_vars, completer, op, typed, key, msg, exit_code, op_file, op_vars>>

OpenFailsSwallowed ==
  /\ Running /\ pc = "save_open"
  /\ msg' = "OSError"
  /\ pc' = "choice" /\ op' = "none"
  /\ UNCHANGED <<file_exists, file, env_vars, completer, typed, key, wbuf,
                 exit_code, op_file, op_vars>>

\* open(env_file, 'w') raises OSError: nothing in add_var, edit_var, delete_var
\* or main catches it, the interpreter prints the traceback and exits with 1
OpenFails ==
  /\ Running /\ pc = "save_open"
  /\ msg' = "OSError"
  /\ exit_code' = 1
  /\ UNCHANGED <<file_exists, file, env_vars, completer, pc, op, typed, key, wbuf,
                 op_file, op_vars>>

\* one f.write of the loop of save_env_vars, into the buffer of the file object
WriteLine ==
  /\ Running /\ pc = "save_write"
  /\ Len(wbuf) < Len(env_vars)
  /\ wbuf' = Append(wbuf, FormatLine(env_vars[Len(wbuf) + 1].key,
                                     env_vars[Len(wbuf) + 1].value))
  /\ UNCHANGED <<file_exists, file, env_vars, completer, pc, op, typed, key, msg,
                 exit_code, op_file, op_vars>>

RefreshesOnAddOnly(o) == o = "add"

\* the operations that call setup_readline after save_env_vars
RefreshesCompleter(o) == o \in {"add", "delete"}

\* the message add_var, edit_var and delete_var print after save_env_vars
DoneMessage(o) ==
  CASE o = "add" -> "Added"
    [] o = "edit" -> "Updated"
    [] OTHER -> "Deleted"

\* the end of the with block (the buffer reaches the file) and the rest of the
\* operation: its message, setup_readline, the return to the menu
SaveClose ==
  /\ Running /\ pc = "save_write"
  /\ Len(wbuf) = Len(env_vars)
  /\ file' = file \o wbuf
  /\ wbuf' = <<>>
  /\ msg' = DoneMessage(op)
  /\ completer' = IF RefreshesCompleter(op) THEN setup_readline(env_vars) ELSE completer
  /\ pc' = "choice" /\ op' = "none"
  /\ op_file' = [exists |-> file_exists, lines |-> file']
  /\ op_vars' = env_vars
  /\ UNCHANGED <<file_exists, env_vars, typed, key, exit_code>>

\* ---------------------------------------------------------------- signals, end of input
InterruptStatusOne ==
  /\ Running /\ pc # "start"
  /\ msg' = "Operation cancelled. Exiting..."
  /\ exit_code' = 1
  /\ file' = file \o wbuf
  /\ wbuf' = <<>>
  /\ UNCHANGED <<file_exists, env_vars, completer, pc, op, typed, key, op_file, op_vars>>

\* SIGINT once handle_interrupt is installed: sys.exit(0) raises SystemExit where
\* the process is; leaving the with block of save_env_vars closes the file, which
\* flushes what was written
Interrupt ==
  /\ Running /\ pc # "start"
  /\ msg' = "Operation cancelled. Exiting..."
  /\ exit_code' = 0
  /\ file' = file \o wbuf
  /\ wbuf' = <<>>
  /\ UNCHANGED <<file_exists, env_vars, completer, pc, op, typed, key, op_file, op_vars>>

\* SIGINT before handle_interrupt is installed: KeyboardInterrupt outside the try
\* of main ends the interpreter
InterruptAtStart ==
  /\ Running /\ pc = "start"
  /\ msg' = "KeyboardInterrupt"
  /\ exit_code' = 130
  /\ UNCHANGED <<file_exists, file, env_vars, completer, pc, op, typed, key, wbuf,
                 op_file, op_vars>>

\* end of input at a prompt: input() raises EOFError, which nothing catches
EndOfInput ==
  /\ Running /\ pc \in Prompts
  /\ msg' = "EOFError"
  /\ exit_code' = 1
  /\ UNCHANGED <<file_exists, file, env_vars, completer, pc, op, typed, key, wbuf,
                 op_file, op_vars>>

Next ==
  \/ Construct
  \/ MenuChoice
  \/ AddKey
  \/ AddValue
  \/ EditKey
  \/ EditValue
  \/ DeleteKey
  \/ DeleteConfirm
  \/ OpenFile
  \/ OpenFails
  \/ WriteLine
  \/ SaveClose
  \/ Interrupt
  \/ InterruptAtStart
  \/ EndOfInput

Spec == Init /\ [][Next]_vars

TypeOK ==
  /\ file_exists \in BOOLEAN
  /\ exit_code \in {-1, 0, 1, 130}
  /\ pc \in Prompts \cup {"start", "save_open", "save_write"}
  /\ op \in {"none", "add", "edit", "delete"}
  /\ Cardinality(KeySet(env_vars)) = Len(env_vars)

\* ---------------------------------------------------------------- properties
\* one line key=value per entry of d, in the order of d
ExpectedLines(d) == [i \in 1..Len(d) |-> d[i].key \o <<"=">> \o d[i].value]

DoneMessages == {"Added", "Updated", "Deleted"}

FileUnchanged == file' = file /\ file_exists' = file_exists

\* C1: whenever control is back at the menu after an accepted add, an edit of an
\* existing key or a confirmed delete, the file exists and holds exactly one line
\* key=value per entry of the mapping, in the mapping's order, and nothing else.
SavedFileMirrorsMapping ==
  (pc = "choice" /\ msg \in DoneMessages) =>
    (file_exists /\ file = ExpectedLines(env_vars))

SavedFileMirrorsMappingWitness ==
  /\ pc = "choice" /\ msg = "Updated"
  /\ Len(env_vars) = 2
  /\ file = ExpectedLines(env_vars)
  /\ op_file.lines = file

\* C2: after a save, loading the file in a fresh store gives the mapping back: the
\* same keys, each with the same value.
SameMapping(d, e) ==
  /\ KeySet(d) = KeySet(e)
  /\ \A k \in KeySet(d) : DictGet(d, k) = DictGet(e, k)

SaveLoadRoundTrip ==
  (pc = "choice" /\ msg \in DoneMessages) =>
    SameMapping(load_env_vars(file_exists, file), env_vars)

\* C3: add with a key that is empty after trimming or already present goes back to
\* the menu without reading a value, mapping and file unchanged; any other key is
\* inserted last with the trimmed value and the save that follows writes the file.
AddContract ==
  [][ /\ (pc = "add_key" /\ exit_code' = -1) =>
           /\ env_vars' = env_vars /\ FileUnchanged
           /\ IF strip(typed') = <<>> \/ HasKey(env_vars, strip(typed'))
                THEN pc' = "choice"
                ELSE pc' = "add_value" /\ key' = strip(typed')
      /\ (pc = "add_value" /\ exit_code' = -1) =>
           /\ env_vars' = Append(env_vars, [key |-> key, value |-> strip(typed')])
           /\ pc' = "save_open"
      /\ (op = "add" /\ pc = "save_open" /\ exit_code' = -1) => pc' = "save_write"
      /\ (op = "add" /\ pc = "save_write" /\ pc' = "choice") =>
           /\ env_vars' = env_vars
           /\ file_exists' /\ file' = ExpectedLines(env_vars)
    ]_vars

AddContractWitness ==
  /\ pc = "choice" /\ msg = "Key already exists! Use edit option to modify."
  /\ HasKey(env_vars, strip(typed))
  /\ DictGet(env_vars, strip(typed)) # <<>>
  /\ env_vars = op_vars
  /\ file = op_file.lines

\* C4: delete asks for confirmation only for a key that is present; any answer
\* other than y or Y (after trimming) leaves mapping and file untouched; y removes
\* that key only, and the save that follows writes the file without it.
DeleteContract ==
  [][ /\ (pc = "delete_key" /\ exit_code' = -1) =>
           /\ env_vars' = env_vars /\ FileUnchanged
           /\ IF HasKey(env_vars, strip(typed'))
                THEN pc' = "delete_confirm" /\ key' = strip(typed')
                ELSE pc' = "choice"
      /\ (pc = "delete_confirm" /\ exit_code' = -1) =>
           IF strip(typed') \in {<<"y">>, <<"Y">>}
             THEN /\ env_vars' = SelectSeq(env_vars, LAMBDA e : e.key # key)
                  /\ Len(env_vars') = Len(env_vars) - 1
                  /\ pc' = "save_open"
             ELSE /\ env_vars' = env_vars /\ FileUnchanged
                  /\ pc' = "choice"
      /\ (op = "delete" /\ pc = "save_write" /\ pc' = "choice") =>
           /\ env_vars' = env_vars
           /\ file_exists' /\ file' = ExpectedLines(env_vars)
           /\ Len(file') = Len(op_vars) - 1
    ]_vars

DeleteContractWitness ==
  /\ pc = "choice" /\ msg = "Deleted"
  /\ env_vars = <<>>
  /\ file_exists /\ file = <<>>

\* C5: edit of a key that is not present changes nothing; an empty new value keeps
\* the mapping as it is; a non-empty one changes the value of that key only. The
\* keys, their order and the values of the other keys never change.
EditContract ==
  [][ /\ (pc = "edit_key" /\ exit_code' = -1) =>
           /\ env_vars' = env_vars /\ FileUnchanged
           /\ IF HasKey(env_vars, strip(typed'))
                THEN pc' = "edit_value" /\ key' = strip(typed')
                ELSE pc' = "choice"
      /\ (pc = "edit_value" /\ exit_code' = -1) =>
           IF strip(typed') = <<>>
             THEN env_vars' = env_vars
             ELSE DictGet(env_vars', key) = strip(typed')
      /\ (op = "edit") =>
           /\ Keys(env_vars') = Keys(env_vars)
           /\ \A i \in 1..Len(env_vars) :
                env_vars[i].key # key => env_vars'[i] = env_vars[i]
    ]_vars

EditContractWitness ==
  /\ pc = "choice" /\ msg = "Updated"
  /\ strip(typed) = <<>>
  /\ Len(env_vars) = 2
  /\ env_vars[1].value # <<>> /\ env_vars[2].value # <<>>
  /\ env_vars = op_vars

\* C6: load never fails and computes the reference parse: an absent file gives the
\* empty mapping and is not created; blank lines and lines whose first non-blank
\* character is # are ignored, lines without = are skipped, every other line is
\* split at its first = into a trimmed key and a trimmed value, and a later line
\* overwrites an earlier one with the same key. The file of the example (a comment,
\* a blank line, FOO=bar, BADLINE) loads to exactly FOO -> bar.
IsPairLine(l) ==
  /\ \E i \in 1..Len(l) : l[i] \notin Whitespace
  /\ LET first == CHOOSE i \in 1..Len(l) :
                    l[i] \notin Whitespace /\ \A j \in 1..(i - 1) : l[j] \in Whitespace
     IN l[first] # "#"
  /\ \E i \in 1..Len(l) : l[i] = "="

RefKey(l) == strip(SubSeq(l, 1, FirstEq(l) - 1))

RefValue(l) == strip(SubSeq(l, FirstEq(l) + 1, Len(l)))

IsReferenceParse(d, exists, lines) ==
  LET pairs == IF exists THEN {i \in 1..Len(lines) : IsPairLine(lines[i])} ELSE {}
  IN /\ KeySet(d) = {RefKey(lines[i]) : i \in pairs}
     /\ Cardinality(KeySet(d)) = Len(d)
     /\ \A i \in pairs :
          (\A j \in pairs : j > i => RefKey(lines[j]) # RefKey(lines[i]))
            => DictGet(d, RefKey(lines[i])) = RefValue(lines[i])

LoadContract ==
  [][ (pc = "start" /\ exit_code' = -1) =>
        /\ pc' = "choice"
        /\ FileUnchanged
        /\ IsReferenceParse(env_vars', file_exists, file)
        /\ (file_exists /\ file = ExampleFile) =>
             env_vars' = << [key |-> <<"F", "O", "O">>, value |-> <<"b", "a", "r">>] >>
    ]_vars

LoadContractWitness ==
  /\ pc = "choice" /\ msg = "none" /\ typed = <<>>
  /\ file_exists /\ file = ExampleFile
  /\ env_vars = << [key |-> <<"F", "O", "O">>, value |-> <<"b", "a", "r">>] >>

\* C7: an interrupt while the process waits at a prompt ends it with exit status 0,
\* and the file is what it was when the operation in progress began.
InterruptAtPromptKeepsFile ==
  (exit_code # -1 /\ msg = "Operation cancelled. Exiting..." /\ pc \in Prompts) =>
    /\ exit_code = 0
    /\ file_exists = op_file.exists
    /\ file = op_file.lines

InterruptAtPromptKeepsFileWitness ==
  /\ exit_code = 0 /\ msg = "Operation cancelled. Exiting..."
  /\ pc = "add_value" /\ key = <<"A">>
  /\ file_exists /\ file = << <<"B", "=">> >>

\* C8: at every prompt, for every prefix, the completion candidates are exactly the
\* keys of the current mapping that start with the prefix, in the mapping's order.
Prefixes == {<<>>, <<"A">>, <<"A", "=">>, <<"B">>, <<"#">>, <<"F", "O">>, <<"x">>}

InterruptLeavesCompleteFile ==
  (exit_code # -1 /\ msg = "Operation cancelled. Exiting...") =>
    \/ (file_exists = op_file.exists /\ file = op_file.lines)
    \/ (file_exists /\ file = ExpectedLines(op_vars))
    \/ (file_exists /\ file = ExpectedLines(env_vars))

\* C10: when save cannot open the file for writing, the process ends with a
\* status that is not the one of the normal exit, nothing runs after the failure,
\* and the file is what it was before the failed save.
OpenFailureIsFatal ==
  [][ /\ msg # "OSError"
      /\ (pc = "save_open" /\ msg' = "OSError") =>
           /\ exit_code' \notin {-1, 0}
           /\ FileUnchanged
    ]_vars

OpenFailureIsFatalWitness ==
  /\ msg = "OSError" /\ exit_code = 1
  /\ op = "delete"
  /\ file_exists /\ Len(file) = 2 /\ Len(env_vars) = 1

====
